---------------------------- MODULE Spec2Model ----------------------------
(***************************************************************************)
(* Model of Workflows/workflow-update-locations.py: the walk over the      *)
(* workflow.yml links below Workflows/, the per-link repair                *)
(* (validate_and_process_link), the name: patch and the whitelist sweep    *)
(* of .github/workflows.                                                   *)
(*                                                                         *)
(* Text is modelled at two levels.  A path segment is a sequence of        *)
(* one-character strings, so that WF_FILENAME_PATTERN can be matched       *)
(* character by character; file names and display names are the strings    *)
(* obtained by concatenating them.  The content of a workflow file is a    *)
(* sequence of lines, a line being either `name:<ws><rest>` or some other  *)
(* text.                                                                   *)
(*                                                                         *)
(* A link is identified by the segments between Workflows/ and             *)
(* workflow.yml.  Its literal target is modelled as                        *)
(*   "../" * up  +  ".github/workflows/"  +  name                         *)
(* which is the family of targets os.path.relpath produces.                *)
(*                                                                         *)
(* The module also models the dev-fork policy script in its two copies,    *)
(* Workflows/GitHub/Repos/dev-fork/enforce-policy/script.py and            *)
(* .github/workflows/github--repo--dev-fork--enforce-policies.py: the loop *)
(* over the repositories a search returns, and the edit calls made on      *)
(* each.  A description is None or a text, a text being a sequence of      *)
(* pieces (the tag, a blank, a word), so that `tag in description` is      *)
(* computed and not assumed.                                               *)
(***************************************************************************)
EXTENDS Integers, Sequences, FiniteSets, TLC

VARIABLES
    lnk,                \* the workflow.yml entries found below Workflows/: parts -> [symlink, target]
    dir,                \* .github/workflows: file name -> content (sequence of lines)
    PREVENT_RELINK_TARGET,
    PREVENT_RENAME_OF_WORKFLOW_FILE,
    PREVENT_EDIT_WORKFLOW_NAME,
    PREVENT_UNLINK_UNRECOGNIZED_WORKFLOW_FILES,
    pc,                 \* "walk" while main walks the links, "ended" once the process has exited
    order,              \* the order in which os.walk yields the links of this tree
    todo,               \* links the walk has not yielded yet, in that order
    workflow_links,     \* the list find_validate_and_fix_links builds
    crits,              \* critical reports logged during this run
    status,             \* what main returned / the process exit status
    run,                \* number of the current run of the script
    last,               \* the link processed by the last step (or NoLink)
    ops,                \* filesystem mutations performed by the last step, in order
    before,             \* the filesystem as the last step found it
    start,              \* the filesystem as the current run found it
    after1,             \* the filesystem as the first run left it
    program,            \* which copy of the dev-fork script runs: "script" or "workflow"
    repos,              \* the repositories the search matches: id -> [name, description, parent]
    pending,            \* search results the loop has not reached yet
    edits,              \* the repo.edit calls made so far, in order: [round, repo, call]
    round,              \* number of the current run of the dev-fork script
    repo_before,        \* the repositories as the last iteration found them
    processed           \* id of the repository of the last iteration (0: none)

vars == <<lnk, dir, PREVENT_RELINK_TARGET, PREVENT_RENAME_OF_WORKFLOW_FILE,
          PREVENT_EDIT_WORKFLOW_NAME, PREVENT_UNLINK_UNRECOGNIZED_WORKFLOW_FILES,
          pc, order, todo, workflow_links, crits, status, run, last, ops,
          before, start, after1,
          program, repos, pending, edits, round, repo_before, processed>>

flagvars == <<PREVENT_RELINK_TARGET, PREVENT_RENAME_OF_WORKFLOW_FILE,
              PREVENT_EDIT_WORKFLOW_NAME, PREVENT_UNLINK_UNRECOGNIZED_WORKFLOW_FILES>>

devforkvars == <<program, repos, pending, edits, round, repo_before, processed>>

workflowvars == <<lnk, dir, flagvars, pc, order, todo, workflow_links, crits, status, run,
                  last, ops, before, start, after1>>

-----------------------------------------------------------------------------
(* Bounds *)

MaxLinks == 2       \* workflow.yml entries in one source tree
MaxFiles == 2       \* files initially in .github/workflows
MaxRuns  == 2       \* consecutive runs of the script
MaxSegLen == 3      \* characters in one path segment (normalizer inputs)
MaxParts == 2       \* segments in one path (normalizer inputs)
MaxRepos == 2       \* repositories one search returns

NoLink == <<>>
None == "None"

-----------------------------------------------------------------------------
(* Strings *)

RECURSIVE Cat(_)
\* the string spelled by a sequence of characters
Cat(cs) == IF cs = <<>> THEN "" ELSE Head(cs) \o Cat(Tail(cs))

RECURSIVE JoinSeq(_, _)
\* sep.join(strs), on sequences of characters
JoinSeq(sep, strs) ==
    IF strs = <<>> THEN <<>>
    ELSE IF Len(strs) = 1 THEN strs[1]
    ELSE strs[1] \o sep \o JoinSeq(sep, Tail(strs))

RECURSIVE SplitLines(_)
\* the lines of a text given as characters (str.split("\n")), as strings
SplitLines(cs) ==
    LET nl == {i \in 1..Len(cs) : cs[i] = "\n"}
    IN  IF nl = {} THEN <<Cat(cs)>>
        ELSE LET k == CHOOSE i \in nl : \A j \in nl : i <= j
             IN  <<Cat(SubSeq(cs, 1, k - 1))>> \o SplitLines(SubSeq(cs, k + 1, Len(cs)))

\* [a-zA-Z0-9_] (a sample of the class)
WordChars == {"a", "b", "c", "d", "x", "y", "A", "Z", "0", "9", "_"}

\* [a-zA-Z0-9_.-]
InnerChars == WordChars \cup {".", "-"}

-----------------------------------------------------------------------------
(* Path normalizer *)

\* WF_FILENAME_PATTERN.match(filename) is not None, for
\* ^[a-zA-Z0-9_][a-zA-Z0-9_.-]*[a-zA-Z0-9_]$ : without re.MULTILINE `$` matches
\* at the end of the string and also just before a newline that ends it.
is_str_valid_wf_filename(s) ==
    LET n == Len(s)
        ends == {n} \cup (IF n > 0 /\ s[n] = "\n" THEN {n - 1} ELSE {})
    IN  \E e \in ends :
            /\ e >= 2
            /\ s[1] \in WordChars
            /\ s[e] \in WordChars
            /\ \A i \in 2..(e - 1) : s[i] \in InnerChars

\* self.relative_to(MY_WORKFLOWS_DIR).parent.parts: the link is identified by them
_get_wf_name_norm_parts(l) == l

_get_wf_name_norm(l) == Cat(JoinSeq(<<"/">>, _get_wf_name_norm_parts(l)))

_get_wf_filename_norm(l) == Cat(JoinSeq(<<"-", "-">>, _get_wf_name_norm_parts(l))) \o ".yml"

\* os.path.relpath(".github/workflows/<norm>", "Workflows/<parts>")
_get_target_norm(l) == [up |-> Len(l) + 1, name |-> _get_wf_filename_norm(l)]

\* the first part that does not match the pattern, or None
subpath_parts_are_valid(l) ==
    LET parts == _get_wf_name_norm_parts(l)
        bad == {i \in 1..Len(parts) : ~is_str_valid_wf_filename(parts[i])}
    IN  IF bad = {} THEN None
        ELSE Cat(parts[CHOOSE i \in bad : \A j \in bad : i <= j])

-----------------------------------------------------------------------------
(* Filesystem primitives.  x is the filesystem during one step:            *)
(* [lnk, dir, ops, raised].                                                *)

LinkPath(l) == "Workflows/" \o _get_wf_name_norm(l) \o "/workflow.yml"

FilePath(name) == ".github/workflows/" \o name

Op(o, p, t) == [op |-> o, path |-> p, to |-> t]

\* self.target.name
wf_filename(x, l) == x.lnk[l].target.name

\* (GITHUB_WORKFLOWS_DIR / name).is_file()
is_file(x, name) == name \in DOMAIN x.dir

\* Path.rename -> os.rename: on POSIX an existing regular file at `new` is
\* replaced silently
rename(x, old, new) ==
    [x EXCEPT !.dir = [n \in (DOMAIN x.dir \ {old}) \cup {new} |->
                          IF n = new THEN x.dir[old] ELSE x.dir[n]],
              !.ops = Append(@, Op("rename", FilePath(old), FilePath(new)))]

\* the file of .github/workflows the link resolves to, or None: the literal
\* target is relative to the link's directory, len(parts) + 1 levels below
\* the project root
resolve(x, l) ==
    LET t == x.lnk[l].target
    IN  IF t.up = Len(l) + 1 /\ t.name \in DOMAIN x.dir THEN t.name ELSE None

-----------------------------------------------------------------------------
(* Repairer *)

\* the rename carried out whatever PREVENT_RENAME_OF_WORKFLOW_FILE says
_normalize_wf_filename_unguarded(x, l) ==
    rename(x, wf_filename(x, l), _get_wf_filename_norm(l))

_normalize_wf_filename(x, l) ==
    IF ~PREVENT_RENAME_OF_WORKFLOW_FILE
    THEN rename(x, wf_filename(x, l), _get_wf_filename_norm(l))
    ELSE x

_relink_to_target_norm(x, l) ==
    IF ~PREVENT_RELINK_TARGET
    THEN [x EXCEPT !.lnk[l].target = _get_target_norm(l),
                   !.ops = @ \o << Op("unlink", LinkPath(l), ""),
                                   Op("symlink", LinkPath(l), FilePath(_get_wf_filename_norm(l))) >>]
    ELSE x

\* the repair with the link rewritten before the file is renamed
validate_and_fix_link_relink_first(x, l) ==
    IF ~is_file(x, wf_filename(x, l))
    THEN IF ~is_file(x, _get_wf_filename_norm(l))
         THEN [x |-> x, ok |-> FALSE]
         ELSE [x |-> _relink_to_target_norm(x, l), ok |-> TRUE]
    ELSE IF wf_filename(x, l) # _get_wf_filename_norm(l)
         THEN [x |-> rename(_relink_to_target_norm(x, l), wf_filename(x, l),
                            _get_wf_filename_norm(l)),
               ok |-> TRUE]
         ELSE IF x.lnk[l].target # _get_target_norm(l)
              THEN [x |-> _relink_to_target_norm(x, l), ok |-> TRUE]
              ELSE [x |-> x, ok |-> TRUE]

validate_and_fix_link(x, l) ==
    IF ~is_file(x, wf_filename(x, l))
    THEN IF ~is_file(x, _get_wf_filename_norm(l))
         THEN [x |-> x, ok |-> FALSE]
         ELSE [x |-> _relink_to_target_norm(x, l), ok |-> TRUE]
    ELSE IF wf_filename(x, l) # _get_wf_filename_norm(l)
         THEN [x |-> _relink_to_target_norm(_normalize_wf_filename(x, l), l), ok |-> TRUE]
         ELSE IF x.lnk[l].target # _get_target_norm(l)
              THEN [x |-> _relink_to_target_norm(x, l), ok |-> TRUE]
              ELSE [x |-> x, ok |-> TRUE]

-----------------------------------------------------------------------------
(* Content patcher.  A line is [name, ws, rest]: the text `name:` ws rest  *)
(* when name is TRUE (ws being the run of blanks and tabs after the        *)
(* colon), the text rest otherwise.                                        *)

NameLine(ws, rest) == [name |-> TRUE, ws |-> ws, rest |-> rest]

OtherLine(text) == [name |-> FALSE, ws |-> "", rest |-> text]

\* _pattern.search(content) for ^(name:)[ \t]*(.*) compiled without
\* re.MULTILINE: `^` matches at the start of the text only
pattern_search(content) == content # <<>> /\ content[1].name

\* the lines of the text `name: "<wf_name_norm>"`: one line, unless the
\* display name itself contains a newline
name_line_text(l) ==
    LET ls == SplitLines(<<"\"">> \o JoinSeq(<<"/">>, _get_wf_name_norm_parts(l)) \o <<"\"">>)
    IN  [i \in 1..Len(ls) |-> IF i = 1 THEN NameLine(" ", ls[1]) ELSE OtherLine(ls[i])]

\* _pattern.sub(r'\1 ' + new_name_quoted, content): the match is the first line
pattern_sub(content, l) ==
    IF pattern_search(content)
    THEN name_line_text(l) \o Tail(content)
    ELSE content

_ensure_has_correct_name(x, l) ==
    LET f == resolve(x, l)
    IN  IF f = None
        THEN [x EXCEPT !.raised = "FileNotFoundError"]
        ELSE LET old_content == x.dir[f]
                 new_name_quoted == "\"" \o _get_wf_name_norm(l) \o "\""
                 new_content ==
                     IF pattern_search(old_content)
                     THEN IF old_content[1].rest # new_name_quoted
                          THEN pattern_sub(old_content, l)
                          ELSE <<>>
                     ELSE name_line_text(l) \o old_content
             IN  IF new_content # <<>> /\ new_content # old_content
                    /\ ~PREVENT_EDIT_WORKFLOW_NAME
                 THEN [x EXCEPT !.dir[f] = new_content,
                                !.ops = Append(@, Op("write", FilePath(f), ""))]
                 ELSE x

-----------------------------------------------------------------------------
(* Driver *)

Crit(kind, l, part) == [kind |-> kind, link |-> l, part |-> part]

\* _LogCrit._log_format_1 passes wfl=, gh_wf_dir=, wf_dir= on to
\* logger.critical(msg, **kwargs); Logger._log takes no such keywords and
\* raises TypeError before anything is logged
_log_format_1(x, kind, l) ==
    [x |-> [x EXCEPT !.raised = "TypeError"], ok |-> FALSE, crit |-> {}]

\* _LogCrit.invalid_path: logger.critical of a plain message
invalid_path(x, l, failing_part) ==
    [x |-> x, ok |-> FALSE, crit |-> {Crit("invalid_path", l, failing_part)}]

validate_and_process_link(x, l) ==
    IF ~x.lnk[l].symlink
    THEN _log_format_1(x, "not_symlink", l)
    ELSE IF subpath_parts_are_valid(l) # None
    THEN invalid_path(x, l, subpath_parts_are_valid(l))
    ELSE LET r == validate_and_fix_link(x, l)
         IN  IF ~r.ok
             THEN _log_format_1(r.x, "missing_workflow_filename", l)
             ELSE [x |-> _ensure_has_correct_name(r.x, l), ok |-> TRUE, crit |-> {}]

RECURSIVE SetToSeq(_)
SetToSeq(S) == IF S = {} THEN <<>>
               ELSE LET e == CHOOSE e \in S : TRUE IN <<e>> \o SetToSeq(S \ {e})

\* a sweep that stops after the first file it unlinks
remove_bad_workflow_files_first_only(x, whitelist) ==
    LET bad == {n \in DOMAIN x.dir : n \notin whitelist}
        gone == IF bad = {} THEN {} ELSE {CHOOSE n \in bad : TRUE}
    IN  IF ~PREVENT_UNLINK_UNRECOGNIZED_WORKFLOW_FILES
        THEN [x EXCEPT !.dir = [n \in DOMAIN x.dir \ gone |-> x.dir[n]],
                       !.ops = @ \o SetToSeq({Op("unlink", FilePath(n), "") : n \in gone})]
        ELSE x

\* for file in GITHUB_WORKFLOWS_DIR.iterdir(): unlink what is not whitelisted
remove_bad_workflow_files(x, whitelist) ==
    LET bad == {n \in DOMAIN x.dir : n \notin whitelist}
    IN  IF ~PREVENT_UNLINK_UNRECOGNIZED_WORKFLOW_FILES
        THEN [x EXCEPT !.dir = [n \in DOMAIN x.dir \ bad |-> x.dir[n]],
                       !.ops = @ \o SetToSeq({Op("unlink", FilePath(n), "") : n \in bad})]
        ELSE x

\* {link.wf_filename for link in workflow_links}
gh_wf_filename_whitelist(x, links) == {wf_filename(x, links[i]) : i \in 1..Len(links)}

\* the filesystem
FS == [lnk |-> lnk, dir |-> dir]

\* the filesystem as a step finds it, nothing done or raised yet
Start == [lnk |-> lnk, dir |-> dir, ops |-> <<>>, raised |-> None]

\* one iteration of the loop of find_validate_and_fix_links; an exception
\* leaves main and the interpreter exits with status 1
ProcessLink ==
    /\ pc = "walk"
    /\ todo # <<>>
    /\ LET l == Head(todo)
           r == validate_and_process_link(Start, l)
       IN  /\ lnk' = r.x.lnk
           /\ dir' = r.x.dir
           /\ ops' = r.x.ops
           /\ crits' = crits \cup r.crit
           /\ last' = l
           /\ IF r.x.raised # None
              THEN /\ pc' = "ended"
                   /\ status' = 1
                   /\ UNCHANGED workflow_links
              ELSE /\ pc' = "walk"
                   /\ workflow_links' = IF r.ok THEN Append(workflow_links, l)
                                        ELSE workflow_links
                   /\ UNCHANGED status
    /\ todo' = Tail(todo)
    /\ before' = FS
    /\ after1' = IF run = 1 /\ pc' = "ended" THEN [lnk |-> lnk', dir |-> dir'] ELSE after1
    /\ UNCHANGED <<flagvars, run, order, start, devforkvars>>

\* the rest of main once the walk is over: whitelist, sweep, return 0,
\* sys.exit(status)
Sweep ==
    /\ pc = "walk"
    /\ todo = <<>>
    /\ LET x == remove_bad_workflow_files(Start, gh_wf_filename_whitelist(Start, workflow_links))
       IN  /\ dir' = x.dir
           /\ ops' = x.ops
           /\ after1' = IF run = 1 THEN [lnk |-> lnk, dir |-> x.dir] ELSE after1
    /\ pc' = "ended"
    /\ status' = 0
    /\ last' = NoLink
    /\ before' = FS
    /\ UNCHANGED <<lnk, flagvars, todo, workflow_links, crits, run, order, start, devforkvars>>

\* the script is started again on the tree the previous run left; os.walk
\* lists the same directories in the same order
Rerun ==
    /\ pc = "ended"
    /\ run < MaxRuns
    /\ pc' = "walk"
    /\ todo' = order
    /\ workflow_links' = <<>>
    /\ crits' = {}
    /\ status' = None
    /\ run' = run + 1
    /\ last' = NoLink
    /\ ops' = <<>>
    /\ before' = FS
    /\ start' = FS
    /\ UNCHANGED <<lnk, dir, flagvars, after1, order, devforkvars>>

Next == ProcessLink \/ Sweep \/ Rerun

-----------------------------------------------------------------------------
(* Initial states: source trees and destination directories *)

\* ordinary trees: segments of letters, no two links with the same canonical name
PlainPaths ==
    { << <<"a", "b">> >>,                                  \* Workflows/ab
      << <<"c", "d">> >>,                                  \* Workflows/cd
      << <<"a", "b">>, <<"c", "d">> >> }                   \* Workflows/ab/cd

PathUniverse ==
    PlainPaths \cup
    { << <<"a", "b", "-", "-", "c", "d">> >>,              \* Workflows/ab--cd
      << <<"-", "x">>, <<"y", ".">> >> }                   \* Workflows/-x/y.

FileNames == {"ab.yml", "ab--cd.yml", "old.yml"}

ContentUniverse ==
    { <<>>,
      << NameLine(" ", "\"x\""), OtherLine("on: push") >>,
      << OtherLine("# ci"), NameLine(" ", "\"x\"") >> }

\* what a workflow.yml entry at l can be: a regular file, or a symlink whose
\* target is at the right depth with some file name, or one level too deep
\* with the canonical name
EntryUniverse(l) ==
    { [symlink |-> FALSE, target |-> [up |-> 0, name |-> ""]] }
    \cup { [symlink |-> TRUE, target |-> [up |-> Len(l) + 1, name |-> n]] : n \in FileNames }
    \cup { [symlink |-> TRUE, target |-> [up |-> Len(l) + 2, name |-> _get_wf_filename_norm(l)]] }

Trees(P) ==
    UNION { {t \in [L -> UNION {EntryUniverse(l) : l \in L}] :
                \A l \in L : t[l] \in EntryUniverse(l)} :
            L \in {L \in SUBSET P : Cardinality(L) <= MaxLinks} }

Dirs ==
    UNION { [F -> ContentUniverse] :
            F \in {F \in SUBSET FileNames : Cardinality(F) <= MaxFiles} }

\* the orders in which a walk can yield the links of a set
Orders(L) == {o \in [1..Cardinality(L) -> L] : \A l \in L : \E i \in DOMAIN o : o[i] = l}

\* the dev-fork script is not running
DevForkIdle ==
    /\ program = None
    /\ repos = <<>>
    /\ pending = <<>>
    /\ edits = <<>>
    /\ round = 0
    /\ repo_before = <<>>
    /\ processed = 0

InitRun ==
    /\ DevForkIdle
    /\ pc = "walk"
    /\ order \in Orders(DOMAIN lnk)
    /\ todo = order
    /\ workflow_links = <<>>
    /\ crits = {}
    /\ status = None
    /\ run = 1
    /\ last = NoLink
    /\ ops = <<>>
    /\ before = FS
    /\ start = FS
    /\ after1 = None

\* the flags as the script sets them
FlagsAsShipped ==
    /\ PREVENT_RELINK_TARGET = FALSE
    /\ PREVENT_RENAME_OF_WORKFLOW_FILE = FALSE
    /\ PREVENT_EDIT_WORKFLOW_NAME = FALSE
    /\ PREVENT_UNLINK_UNRECOGNIZED_WORKFLOW_FILES = FALSE

Init ==
    /\ lnk \in Trees(PathUniverse)
    /\ dir \in Dirs
    /\ FlagsAsShipped
    /\ InitRun

InitPlain ==
    /\ lnk \in Trees(PlainPaths)
    /\ dir \in Dirs
    /\ FlagsAsShipped
    /\ InitRun

Spec == Init /\ [][Next]_vars

\* runs on ordinary trees only
SpecPlain == InitPlain /\ [][Next]_vars

\* characters a directory name is drawn from: a letter, an underscore, the
\* hyphen, the period, a newline and a character outside the allowed set
SegChars == {"a", "_", "-", ".", "\n", "@"}

RECURSIVE SeqsUpTo(_, _)
\* the sequences over S of length 1..n
SeqsUpTo(S, n) ==
    IF n = 0 THEN {}
    ELSE LET shorter == SeqsUpTo(S, n - 1)
         IN  {<<e>> : e \in S} \cup shorter \cup {Append(q, e) : q \in shorter, e \in S}

Segments == SeqsUpTo(SegChars, MaxSegLen)

\* a tree with one link below any directory path, pointing at an existing
\* file with a legacy name
InitNorm ==
    /\ \E l \in SeqsUpTo(Segments, MaxParts) :
           lnk = (l :> [symlink |-> TRUE, target |-> [up |-> Len(l) + 1, name |-> "old.yml"]])
    /\ dir = ("old.yml" :> << NameLine(" ", "\"x\""), OtherLine("on: push") >>)
    /\ FlagsAsShipped
    /\ InitRun

\* runs on one link below every directory path within the bounds
SpecNorm == InitNorm /\ [][Next]_vars

\* the two top-level directories of the ordinary trees
DryPaths ==
    { << <<"a", "b">> >>,                                  \* Workflows/ab
      << <<"c", "d">> >> }                                 \* Workflows/cd

\* the four flags edited to any combination of True and False before the run
InitDry ==
    /\ lnk \in Trees(DryPaths)
    /\ dir \in Dirs
    /\ PREVENT_RELINK_TARGET \in BOOLEAN
    /\ PREVENT_RENAME_OF_WORKFLOW_FILE \in BOOLEAN
    /\ PREVENT_EDIT_WORKFLOW_NAME \in BOOLEAN
    /\ PREVENT_UNLINK_UNRECOGNIZED_WORKFLOW_FILES \in BOOLEAN
    /\ InitRun

\* runs under every setting of the flags
SpecDry == InitDry /\ [][Next]_vars

-----------------------------------------------------------------------------
(* Dev-fork policy script.  r is one loop iteration in progress:           *)
(* [repo, edits], the repository object and the edit calls made so far.    *)

DEV_FORK_DESC_TAG == "[DEV-FORK]"

\* repo.description is None
NoDescription == [none |-> TRUE, text |-> <<>>]

\* repo.description is the text made of the pieces t
Description(t) == [none |-> FALSE, text |-> t]

\* DEV_FORK_DESC_TAG in repo.description, for a description that is a text
tag_in(description) ==
    \E i \in 1..Len(description.text) : description.text[i] = DEV_FORK_DESC_TAG

\* f"{repo.parent.owner.login}--{repo.parent.name}--dev-fork"
expected_name(repo) ==
    repo.parent.owner.login \o "--" \o repo.parent.name \o "--dev-fork"

\* repo.edit(name=...): the call is made and the object takes the new value
edit_name(r, name) ==
    [repo |-> [r.repo EXCEPT !.name = name],
     edits |-> Append(r.edits, [kw |-> "name", name |-> name])]

\* repo.edit(description=...)
edit_description(r, description) ==
    [repo |-> [r.repo EXCEPT !.description = description],
     edits |-> Append(r.edits, [kw |-> "description", description |-> description])]

change_repo_name(r, name) == edit_name(r, name)

\* the new description chosen with `is None` in place of `not`
change_repo_description_is_none(r) ==
    LET new_description ==
            IF r.repo.description.none
            THEN Description(<<DEV_FORK_DESC_TAG>>)
            ELSE Description(<<DEV_FORK_DESC_TAG, " ">> \o r.repo.description.text)
    IN  edit_description(r, new_description)

\* `not repo.description` is true of None and of the empty text
change_repo_description(r) ==
    LET new_description ==
            IF r.repo.description.none \/ r.repo.description.text = <<>>
            THEN Description(<<DEV_FORK_DESC_TAG>>)
            ELSE Description(<<DEV_FORK_DESC_TAG, " ">> \o r.repo.description.text)
    IN  edit_description(r, new_description)

process_repository(r) ==
    LET named == IF r.repo.name # expected_name(r.repo)
                 THEN change_repo_name(r, expected_name(r.repo))
                 ELSE r
    IN  IF named.repo.description.none \/ ~tag_in(named.repo.description)
        THEN change_repo_description(named)
        ELSE named

\* the body of the loop of github--repo--dev-fork--enforce-policies.py: the
\* same two tests with the edits inline; the new description is the tag
\* alone only when the old one is None
enforce_policies_loop_body(r) ==
    LET named == IF r.repo.name # expected_name(r.repo)
                 THEN edit_name(r, expected_name(r.repo))
                 ELSE r
    IN  IF named.repo.description.none \/ ~tag_in(named.repo.description)
        THEN edit_description(named,
                 IF named.repo.description.none
                 THEN Description(<<DEV_FORK_DESC_TAG>>)
                 ELSE Description(<<DEV_FORK_DESC_TAG, " ">> \o named.repo.description.text))
        ELSE named

\* the calls of one iteration as the record of calls keeps them
Logged(calls, id) == [k \in 1..Len(calls) |-> [round |-> round, repo |-> id, call |-> calls[k]]]

\* the results of g.search_repositories, in the order the search lists them
search_repositories == [i \in 1..Len(repos) |-> i]

\* for repo in g.search_repositories(query=search_query): process_repository(repo)
MainLoop ==
    /\ program = "script"
    /\ pending # <<>>
    /\ LET r == process_repository([repo |-> repos[Head(pending)], edits |-> <<>>])
       IN  /\ repos' = [repos EXCEPT ![Head(pending)] = r.repo]
           /\ edits' = edits \o Logged(r.edits, Head(pending))
    /\ pending' = Tail(pending)
    /\ repo_before' = repos
    /\ processed' = Head(pending)
    /\ UNCHANGED <<program, round, workflowvars>>

\* one iteration of the module-level loop of the copy in .github/workflows
ModuleLoop ==
    /\ program = "workflow"
    /\ pending # <<>>
    /\ LET r == enforce_policies_loop_body([repo |-> repos[Head(pending)], edits |-> <<>>])
       IN  /\ repos' = [repos EXCEPT ![Head(pending)] = r.repo]
           /\ edits' = edits \o Logged(r.edits, Head(pending))
    /\ pending' = Tail(pending)
    /\ repo_before' = repos
    /\ processed' = Head(pending)
    /\ UNCHANGED <<program, round, workflowvars>>

\* the script has ended and is started again: the search matches the same
\* repositories (owner, fork status and topic are not edited)
SearchAgain ==
    /\ program # None
    /\ pending = <<>>
    /\ round < MaxRuns
    /\ pending' = search_repositories
    /\ round' = round + 1
    /\ repo_before' = repos
    /\ processed' = 0
    /\ UNCHANGED <<program, repos, edits, workflowvars>>

NextDevFork == MainLoop \/ ModuleLoop \/ SearchAgain

\* repo.parent of the forks: owner login and name of the upstream repository
ParentUniverse ==
    { [owner |-> [login |-> "o"], name |-> "p"],
      [owner |-> [login |-> "u"], name |-> "q"],
      [owner |-> [login |-> "o"], name |-> "q"] }

\* descriptions: None, the empty text, texts without the tag, texts with the
\* tag in front, at the end and alone
DescriptionUniverse ==
    { NoDescription,
      Description(<<>>),
      Description(<<"x">>),
      Description(<<" ">>),
      Description(<<DEV_FORK_DESC_TAG>>),
      Description(<<DEV_FORK_DESC_TAG, " ">>),
      Description(<<DEV_FORK_DESC_TAG, " ", "x">>),
      Description(<<"x", " ", DEV_FORK_DESC_TAG>>) }

\* a fork the search can return: named after its parent (the name a fork is
\* given) or already renamed, with any description
RepoUniverse ==
    UNION { { [name |-> n, description |-> d, parent |-> p] :
                n \in {p.name, expected_name([parent |-> p])}, d \in DescriptionUniverse } :
            p \in ParentUniverse }

\* the workflow-link script is not running
WorkflowsIdle ==
    /\ lnk = <<>>
    /\ dir = <<>>
    /\ FlagsAsShipped
    /\ pc = "off"
    /\ order = <<>>
    /\ todo = <<>>
    /\ workflow_links = <<>>
    /\ crits = {}
    /\ status = None
    /\ run = 0
    /\ last = NoLink
    /\ ops = <<>>
    /\ before = [lnk |-> <<>>, dir |-> <<>>]
    /\ start = [lnk |-> <<>>, dir |-> <<>>]
    /\ after1 = None

\* either copy of the script is started on an account whose forks carrying
\* the topic are any 1..MaxRepos repositories with different names and
\* different parents
InitDevFork ==
    /\ WorkflowsIdle
    /\ program \in {"script", "workflow"}
    /\ \E n \in 1..MaxRepos :
           /\ repos \in [1..n -> RepoUniverse]
           /\ \A i, j \in 1..n :
                  i # j => /\ repos[i].name # repos[j].name
                           /\ repos[i].parent # repos[j].parent
    /\ pending = search_repositories
    /\ edits = <<>>
    /\ round = 1
    /\ repo_before = repos
    /\ processed = 0

SpecDevFork == InitDevFork /\ [][NextDevFork]_vars

-----------------------------------------------------------------------------
(* Vocabulary of the properties *)

FlagsOff ==
    /\ ~PREVENT_RELINK_TARGET
    /\ ~PREVENT_RENAME_OF_WORKFLOW_FILE
    /\ ~PREVENT_EDIT_WORKFLOW_NAME
    /\ ~PREVENT_UNLINK_UNRECOGNIZED_WORKFLOW_FILES

\* the walk is over and the sweep is about to run
AtSweep == pc = "walk" /\ todo = <<>>

Quoted(l) == "\"" \o _get_wf_name_norm(l) \o "\""

NameLines(content) == {i \in 1..Len(content) : content[i].name}

FirstNameLine(content) == CHOOSE i \in NameLines(content) : \A j \in NameLines(content) : i <= j

\* the file's first name: line carries the value v
NameIs(content, v) ==
    NameLines(content) # {} /\ content[FirstNameLine(content)].rest = v

Settled(l) ==
    /\ lnk[l].target = _get_target_norm(l)
    /\ _get_wf_filename_norm(l) \in DOMAIN dir
    /\ NameIs(dir[_get_wf_filename_norm(l)], Quoted(l))

ValidLinks == {workflow_links[i] : i \in 1..Len(workflow_links)}

-----------------------------------------------------------------------------
(* C1: when the walk is over and the sweep is about to run (flags off),    *)
(* every link of the valid list has its literal target equal to the        *)
(* canonical target, its canonical file exists, and that file's name: line *)
(* is the quoted canonical display name -- whatever the visiting order and *)
(* whatever the other links point to.                                      *)
C1_ValidLinksSettledAtSweep ==
    (AtSweep /\ FlagsOff) => \A l \in ValidLinks : Settled(l)

-----------------------------------------------------------------------------
(* C2: idempotence of the whole run.  Whatever the source tree and the     *)
(* destination directory, a second run performs no rename, relink, content *)
(* write or delete, and leaves every link target, the set of destination   *)
(* file names and every file content as the first run left them.           *)
C2_SecondRunIsNoOp ==
    run = 2 => /\ ops = <<>>
               /\ lnk = after1.lnk
               /\ dir = after1.dir

-----------------------------------------------------------------------------
(* More vocabulary: what the last step was *)

\* the last step was the sweep (main returned 0)
Swept == pc = "ended" /\ status = 0 /\ last = NoLink

\* the last step processed link l
Processed(l) == last = l /\ l \in DOMAIN lnk

\* l went into the valid list in the last step
Accepted(l) == Processed(l) /\ pc = "walk" /\ l \in ValidLinks

CanonicalNames(L) == {_get_wf_filename_norm(l) : l \in L}

(* C3: after the whitelist sweep (unlink not prevented) the destination    *)
(* directory holds exactly those of its pre-sweep entries whose name is    *)
(* the canonical filename of a link of the valid list: every other entry   *)
(* is removed and every kept entry has its content unchanged.              *)
C3_SweepKeepsExactlyWhitelisted ==
    (Swept /\ ~PREVENT_UNLINK_UNRECOGNIZED_WORKFLOW_FILES) =>
        /\ DOMAIN dir = DOMAIN before.dir \cap CanonicalNames(ValidLinks)
        /\ \A n \in DOMAIN dir : dir[n] = before.dir[n]

\* a sweep that removed a stray file and kept a whitelisted one
C3_Witness ==
    /\ Swept
    /\ DOMAIN dir # {}
    /\ DOMAIN before.dir \ DOMAIN dir # {}

-----------------------------------------------------------------------------
\* l is a symlink below an accepted path
Repairable(b, l) == b.lnk[l].symlink /\ subpath_parts_are_valid(l) = None

\* in filesystem b, l points at an existing file with a non-canonical name
PresentWrongName(b, l) ==
    /\ Repairable(b, l)
    /\ b.lnk[l].target.name \in DOMAIN b.dir
    /\ b.lnk[l].target.name # _get_wf_filename_norm(l)

\* new is old, or old with its leading name: line replaced, or old with a
\* name: line put in front
SameApartFromName(old, new) ==
    \/ new = old
    \/ old # <<>> /\ new # <<>> /\ old[1].name /\ new[1].name /\ Tail(new) = Tail(old)
    \/ new # <<>> /\ new[1].name /\ Tail(new) = old

(* C4: a link that points at an existing file with a non-canonical name    *)
(* while the canonical file is absent is repaired by renaming the file     *)
(* first and rewriting the link afterwards; then the old name is gone, the *)
(* canonical file has the old file's content apart from the name: patch,   *)
(* the link's target is the canonical target, and the link is in the valid *)
(* list with its canonical filename in the whitelist.                      *)
C4_RenameThenRelink ==
    /\ (AtSweep /\ FlagsOff) =>
           \A l \in ValidLinks :
               _get_wf_filename_norm(l) \in gh_wf_filename_whitelist(FS, workflow_links)
    /\ \A l \in DOMAIN lnk :
        ( /\ Processed(l)
          /\ FlagsOff
          /\ PresentWrongName(before, l)
          /\ _get_wf_filename_norm(l) \notin DOMAIN before.dir ) =>
            LET old == before.lnk[l].target.name
                norm == _get_wf_filename_norm(l)
            IN  /\ Len(ops) >= 3
                /\ ops[1] = Op("rename", FilePath(old), FilePath(norm))
                /\ ops[2] = Op("unlink", LinkPath(l), "")
                /\ ops[3] = Op("symlink", LinkPath(l), FilePath(norm))
                /\ old \notin DOMAIN dir
                /\ norm \in DOMAIN dir
                /\ SameApartFromName(before.dir[old], dir[norm])
                /\ lnk[l].target = _get_target_norm(l)
                /\ l \in ValidLinks
                /\ norm \in gh_wf_filename_whitelist(FS, workflow_links)

\* such a link has just been repaired
C4_Witness ==
    \E l \in DOMAIN lnk :
        /\ Processed(l)
        /\ PresentWrongName(before, l)
        /\ _get_wf_filename_norm(l) \notin DOMAIN before.dir
        /\ ops # <<>>
        /\ ops[1].op = "rename"
        /\ _get_wf_filename_norm(l) \in DOMAIN dir

-----------------------------------------------------------------------------
\* in filesystem b, neither the file l points at nor its canonical file exists
DanglingNoCanonical(b, l) ==
    /\ Repairable(b, l)
    /\ b.lnk[l].target.name \notin DOMAIN b.dir
    /\ _get_wf_filename_norm(l) \notin DOMAIN b.dir

(* C5: when the tree holds a link whose target file and canonical file are *)
(* both missing, the run reports that link as a missing workflow file,     *)
(* leaves it out of the valid list, does not rewrite it, and leaves the    *)
(* destination directory as the run found it.                              *)
C5_UnrecoverableLinkReported ==
    pc = "ended" =>
        \A l \in DOMAIN start.lnk :
            DanglingNoCanonical(start, l) =>
                /\ Crit("missing_workflow_filename", l, "") \in crits
                /\ l \notin ValidLinks
                /\ lnk[l] = start.lnk[l]
                /\ dir = start.dir

-----------------------------------------------------------------------------
\* the content the patcher read for l in the last step: the file l pointed
\* at if it existed (a rename keeps the content), else the canonical file
PatchInput(l) ==
    IF before.lnk[l].target.name \in DOMAIN before.dir
    THEN before.dir[before.lnk[l].target.name]
    ELSE before.dir[_get_wf_filename_norm(l)]

(* C6: when the target file has a line beginning with name: -- at any line *)
(* position -- whose value is not the quoted canonical display name, the   *)
(* patch gives the first such line that value, keeps the number of lines   *)
(* and leaves every other line as it was.                                  *)
C6_PatchChangesOneLine ==
    \A l \in DOMAIN lnk :
        (Accepted(l) /\ FlagsOff) =>
            LET old == PatchInput(l)
                new == dir[_get_wf_filename_norm(l)]
            IN  (NameLines(old) # {} /\ ~NameIs(old, Quoted(l))) =>
                    LET k == FirstNameLine(old)
                    IN  /\ Len(new) = Len(old)
                        /\ new[k].name
                        /\ new[k].rest = Quoted(l)
                        /\ \A i \in 1..Len(old) : i # k => new[i] = old[i]

-----------------------------------------------------------------------------
\* the character rule as the invalid_path message words it: only letters,
\* digits, underscore, hyphen and period; no hyphen or period first or last
ObeysRule(seg) ==
    /\ seg # <<>>
    /\ \A i \in 1..Len(seg) : seg[i] \in InnerChars
    /\ seg[1] \notin {"-", "."}
    /\ seg[Len(seg)] \notin {"-", "."}

RECURSIVE Joined(_, _)
\* the segments written one after the other with sep between them
Joined(sep, l) ==
    IF Len(l) = 1 THEN Cat(l[1]) ELSE Cat(l[1]) \o sep \o Joined(sep, Tail(l))

(* C7: every non-empty sequence of segments that obey the character rule   *)
(* (one-character segments included) is accepted by                        *)
(* subpath_parts_are_valid, its canonical filename is the segments joined  *)
(* by -- plus .yml and its canonical display name the segments joined      *)
(* by /.                                                                   *)
C7_RuleAbidingSegmentsAccepted ==
    \A l \in DOMAIN lnk :
        (\A i \in 1..Len(l) : ObeysRule(l[i])) =>
            /\ subpath_parts_are_valid(l) = None
            /\ _get_wf_filename_norm(l) = Joined("--", l) \o ".yml"
            /\ _get_wf_name_norm(l) = Joined("/", l)
            /\ Processed(l) => \A c \in crits : c.link # l

(* C8: processing a link with a segment that violates the character rule   *)
(* fails with the invalid-path report naming the first offending segment,  *)
(* keeps the link out of the valid list, changes nothing on the            *)
(* filesystem, and lets the walk go on.                                    *)
C8_InvalidSegmentRejected ==
    \A l \in DOMAIN lnk :
        ( /\ Processed(l)
          /\ before.lnk[l].symlink
          /\ \E i \in 1..Len(l) : ~ObeysRule(l[i]) ) =>
            LET bad == {i \in 1..Len(l) : ~ObeysRule(l[i])}
                k == CHOOSE i \in bad : \A j \in bad : i <= j
            IN  /\ Crit("invalid_path", l, Cat(l[k])) \in crits
                /\ l \notin ValidLinks
                /\ ops = <<>>
                /\ FS = before
                /\ pc = "walk"

-----------------------------------------------------------------------------
\* the links the walk of this run has yielded
Visited == DOMAIN lnk \ {todo[i] : i \in 1..Len(todo)}

(* C9: the run ends with status 0 when every link found was valid or       *)
(* fixed, and with a non-zero status when some link was skipped and left   *)
(* out of the whitelist.                                                   *)
C9_ExitStatus ==
    pc = "ended" =>
        /\ (DOMAIN lnk \subseteq ValidLinks) => status = 0
        /\ (\E l \in Visited : l \notin ValidLinks) => status # 0

(* C10: when a link points at an existing file with a non-canonical name   *)
(* and the canonical file already exists, the rename fails, the run is     *)
(* aborted, and the canonical file keeps its content.                      *)
C10_RenameNeverOverwrites ==
    \A l \in DOMAIN lnk :
        ( /\ Processed(l)
          /\ PresentWrongName(before, l)
          /\ _get_wf_filename_norm(l) \in DOMAIN before.dir ) =>
            /\ pc = "ended"
            /\ status # 0
            /\ _get_wf_filename_norm(l) \in DOMAIN dir
            /\ dir[_get_wf_filename_norm(l)] = before.dir[_get_wf_filename_norm(l)]

-----------------------------------------------------------------------------
\* every flag is set
FlagsOn ==
    /\ PREVENT_RELINK_TARGET
    /\ PREVENT_RENAME_OF_WORKFLOW_FILE
    /\ PREVENT_EDIT_WORKFLOW_NAME
    /\ PREVENT_UNLINK_UNRECOGNIZED_WORKFLOW_FILES

\* the operations of the last step
Executed == {ops[i] : i \in 1..Len(ops)}

LinkPaths == {LinkPath(l) : l \in DOMAIN start.lnk}

FilePaths == {FilePath(n) : n \in FileNames \cup CanonicalNames(DOMAIN start.lnk)}

(* C11: no step of a run executes an operation whose flag is set: no       *)
(* rename under PREVENT_RENAME_OF_WORKFLOW_FILE, no unlink or symlink of a *)
(* link under PREVENT_RELINK_TARGET (every link keeps its target), no      *)
(* content write under PREVENT_EDIT_WORKFLOW_NAME, no delete of a          *)
(* destination file under PREVENT_UNLINK_UNRECOGNIZED_WORKFLOW_FILES; the  *)
(* operations that are executed are of these four kinds only; and with all *)
(* four flags set the link targets, the destination file names and the     *)
(* file contents stay as the run found them, whatever the initial tree.    *)
C11_SetFlagPreventsItsOperation ==
    /\ \A o \in Executed :
           \/ o.op = "rename" /\ o.path \in FilePaths /\ ~PREVENT_RENAME_OF_WORKFLOW_FILE
           \/ o.op \in {"unlink", "symlink"} /\ o.path \in LinkPaths /\ ~PREVENT_RELINK_TARGET
           \/ o.op = "write" /\ o.path \in FilePaths /\ ~PREVENT_EDIT_WORKFLOW_NAME
           \/ o.op = "unlink" /\ o.path \in FilePaths
                 /\ ~PREVENT_UNLINK_UNRECOGNIZED_WORKFLOW_FILES
    /\ PREVENT_RELINK_TARGET => lnk = start.lnk
    /\ (PREVENT_RENAME_OF_WORKFLOW_FILE /\ PREVENT_UNLINK_UNRECOGNIZED_WORKFLOW_FILES) =>
           DOMAIN dir = DOMAIN start.dir
    /\ (PREVENT_RENAME_OF_WORKFLOW_FILE /\ PREVENT_EDIT_WORKFLOW_NAME) =>
           \A n \in DOMAIN dir : dir[n] = start.dir[n]
    /\ FlagsOn => (ops = <<>> /\ FS = start /\ FS = before)

\* a run with every flag set has reached its end on a tree where it had a
\* file to rename, a link to rewrite, a name to patch and a file to sweep
C11_Witness ==
    /\ FlagsOn
    /\ Swept
    /\ \E l \in ValidLinks :
           /\ PresentWrongName(start, l)
           /\ ~NameIs(start.dir[start.lnk[l].target.name], Quoted(l))
    /\ DOMAIN dir \ gh_wf_filename_whitelist(FS, workflow_links) # {}
    /\ FS = start

-----------------------------------------------------------------------------
(* C12: two links below different directory paths, each path accepted by   *)
(* subpath_parts_are_valid, never have the same canonical filename: when   *)
(* the walk is over, any two links of the valid list differ in their       *)
(* canonical filename and point at different destination files.            *)
C12_CanonicalNamesUnique ==
    AtSweep =>
        \A l1, l2 \in ValidLinks :
            ( /\ l1 # l2
              /\ subpath_parts_are_valid(l1) = None
              /\ subpath_parts_are_valid(l2) = None ) =>
                /\ _get_wf_filename_norm(l1) # _get_wf_filename_norm(l2)
                /\ lnk[l1].target.name # lnk[l2].target.name

-----------------------------------------------------------------------------
\* the edit calls iteration `id` of round `rd` made, in order
Calls(rd, id) ==
    LET mine == SelectSeq(edits, LAMBDA e : e.round = rd /\ e.repo = id)
    IN  [k \in 1..Len(mine) |-> mine[k].call]

\* the repository has the policy's name and a description with the tag
Compliant(repo) ==
    /\ repo.name = expected_name(repo)
    /\ ~repo.description.none
    /\ tag_in(repo.description)

\* the description is None or the empty text
Blank(description) == description.none \/ description.text = <<>>

=============================================================================
